---- MODULE Spec2Model ----
(***************************************************************************)
(* TradeExecutor of aimbot/trading/trade_executor.py as a state machine.   *)
(*                                                                         *)
(* The executor is constructed once (Init), after which callers invoke     *)
(* execute_trade.  One call is split at the broker client's network calls  *)
(* (submit_order, get_latest_trade): these are the only points where the   *)
(* call waits on the venue, and each of them either returns or raises.     *)
(*                                                                         *)
(* Spec: one caller, every argument combination of execute_trade.          *)
(* SpecTracker: one caller alternating execute_trade and                   *)
(* check_order_status while the venue fills orders.                        *)
(* SpecConcurrent: two callers sharing the executor, calling as            *)
(* AimBot.process_news_item does.                                          *)
(*                                                                         *)
(* Numbers.  confidence is a float in the source; here it is the integer   *)
(* numerator of a fraction over ConfScale (8 stands for 0.8 when ConfScale *)
(* is 10).  Arithmetic is exact rational arithmetic; int() is truncation   *)
(* toward zero, as in Python.  stop_loss_pct is in percent and stop prices *)
(* are in hundredths of the price unit.                                    *)
(*                                                                         *)
(* Python's None is the empty tuple, a present value v is <<v>>.           *)
(*                                                                         *)
(* The module-level names logger and datetime that trade_executor.py uses  *)
(* are taken to be bound; logging changes no state and is not modelled.    *)
(***************************************************************************)
EXTENDS Integers, Sequences, FiniteSets, TLC

\* ---------------------------------------------------------------- bounds
MaxClock == 1
MaxQty == 3
ConfScale == 10

\* ------------------------------------------------------ program constants
PricePerShare == 100
PaperDefaultQuantity == 10
DefaultStopLossPct == 5

\* ------------------------------------------------------------ value sets
None == <<>>
Some(v) == <<v>>

Threads == {"t1", "t2"}
Brokers == {"paper", "alpaca", "ibkr"}
ConnectOutcomes == {"ok", "import_error", "rest_error", "account_error"}
Tickers == {"TSLA", "GME"}
Actions == {"BUY", "SELL", "HOLD"}
Confidences == {-(ConfScale \div 2), 0, ConfScale - 2, ConfScale, ConfScale + (ConfScale \div 2)}
Capitals == {50, 250}
OrderTypes == {"market", "limit", "stop"}
LimitPrices == {None, Some(150)}
Quantities == {None} \cup {Some(q) : q \in {-1, 0, 1, MaxQty}}
ExceptionMessages == {"", "venue rejected the order"}
OrderIds == {"a1f3"}
LatestPrices == {200}
UnboundOrderMessage == "cannot access local variable 'order' where it is not associated with a value"
NotConnectedMessage == "Broker not connected"

VARIABLES broker, client, connect_outcome, max_capital_per_trade, use_stop_loss,
          stop_loss_pct, now, frame, venue, last_status

vars == <<broker, client, connect_outcome, max_capital_per_trade, use_stop_loss,
          stop_loss_pct, now, frame, venue, last_status>>

config == <<broker, client, connect_outcome, max_capital_per_trade, use_stop_loss, stop_loss_pct>>

\* venue: the venue's record of each order it knows; last_status: the last
\* check_order_status call (its argument, what get_order did, what was returned)
\* since the venue's records last changed, None when there is none.
tracker == <<venue, last_status>>

\* ------------------------------------------------------------ construction
\* The client left in self.client by _connect_to_broker.  "import_error": the
\* SDK import raises; "rest_error": tradeapi.REST(...) raises; "account_error":
\* get_account() raises after self.client was assigned; "ok": all succeed.
_connect_to_broker(b, outcome) ==
    IF b = "paper" THEN None
    ELSE IF b = "alpaca"
         THEN IF outcome \in {"import_error", "rest_error"} THEN None ELSE Some("REST")
         ELSE None

\* What client.get_order returns for an order the venue holds: accepted and
\* not yet filled, or filled.
NewOrder ==
    [status |-> "new", filled_qty |-> 0, filled_avg_price |-> None, symbol |-> "TSLA"]

FilledOrder ==
    [status |-> "filled", filled_qty |-> 1, filled_avg_price |-> Some(200), symbol |-> "TSLA"]

IdleFrame ==
    [pc |-> "idle", signal |-> None, order_type |-> "market", limit_price |-> None,
     arg_quantity |-> None, quantity |-> None, order |-> None, current_price |-> None,
     calls |-> <<>>, exception |-> None, result |-> None]

Init ==
    /\ broker \in Brokers
    /\ connect_outcome \in (IF broker = "alpaca" THEN ConnectOutcomes ELSE {"ok"})
    /\ client = _connect_to_broker(broker, connect_outcome)
    /\ max_capital_per_trade \in Capitals
    /\ use_stop_loss \in BOOLEAN
    /\ stop_loss_pct = DefaultStopLossPct
    /\ now = 0
    /\ frame = [t \in Threads |-> IdleFrame]
    /\ venue = [id \in OrderIds |-> NewOrder]
    /\ last_status = None

\* ------------------------------------------------------------ pure helpers
\* Python int() of the rational a/b (b > 0): truncation toward zero.
IntTrunc(a, b) ==
    IF a >= 0 THEN a \div b ELSE -((-a) \div b)

Max(a, b) ==
    IF a >= b THEN a ELSE b

\* Mathematical floor of max_capital * confidence / price, for the claims.
FloorShares(m, c) ==
    (m * c) \div (PricePerShare * ConfScale)

Sizing_NoMinimum(m, ticker, confidence) ==
    IntTrunc(m * confidence, PricePerShare * ConfScale)

\* _calculate_position_size with self.max_capital_per_trade = m.
PositionSize(m, ticker, confidence) ==
    Max(1, IntTrunc(m * confidence, PricePerShare * ConfScale))

_calculate_position_size(ticker, confidence) ==
    PositionSize(max_capital_per_trade, ticker, confidence)

IsTrade_AnyAction(action) ==
    TRUE

\* line 82: action in ["BUY", "SELL"]
IsTradeAction(action) ==
    action \in {"BUY", "SELL"}

PaperQuantity_AlwaysDefault(quantity) ==
    PaperDefaultQuantity

\* line 98: quantity or 10
PaperQuantity(quantity) ==
    IF quantity = None \/ quantity = Some(0) THEN PaperDefaultQuantity ELSE quantity[1]

ResolveQuantity_AlwaysSized(quantity, ticker, confidence) ==
    _calculate_position_size(ticker, confidence)

\* lines 104-105: the local quantity after "if quantity is None".
ResolveQuantity(quantity, ticker, confidence) ==
    IF quantity = None THEN _calculate_position_size(ticker, confidence) ELSE quantity[1]

\* lines 111, 121: which primary order the call submits, if any.
PrimaryKind(order_type, limit_price) ==
    IF order_type = "market" THEN "market"
    ELSE IF order_type = "limit" /\ limit_price # None /\ limit_price # Some(0) THEN "limit"
    ELSE "none"

WantsStopLoss_IgnoresAction(action) ==
    use_stop_loss

\* line 133
WantsStopLoss(action) ==
    use_stop_loss /\ action = "BUY"

\* line 135, in hundredths
StopPrice(current_price) ==
    current_price * (100 - stop_loss_pct)

\* ------------------------------------------------------------ results
NoTradeResult ==
    [status |-> "no_trade", order_id |-> None]

PaperResult(ticker, action, quantity) ==
    [status |-> "success", order_id |-> Some(<<"paper", now>>), ticker |-> ticker,
     action |-> action, quantity |-> PaperQuantity(quantity), price |-> None,
     timestamp |-> now]

SuccessResult(f) ==
    [status |-> "success", order_id |-> f.order, ticker |-> f.signal.ticker,
     action |-> f.signal.action, quantity |-> f.quantity[1],
     price |-> IF f.order_type = "limit" THEN f.limit_price ELSE None,
     timestamp |-> now]

NotConnectedResult ==
    [status |-> "error", order_id |-> None, message |-> Some(NotConnectedMessage)]

ErrorResult_GenericMessage(msg) ==
    [status |-> "error", order_id |-> None, message |-> Some("Trade failed")]

\* lines 161-163: the except clause, message = str(e)
ErrorResult(msg) ==
    [status |-> "error", order_id |-> None, message |-> Some(msg)]

Done(f, r) ==
    [f EXCEPT !.pc = "done", !.result = Some(r)]

\* lines 161-163: an exception with str(e) = msg raised inside the try block is
\* caught and turned into the error result.
Raised(f, msg) ==
    Done([f EXCEPT !.exception = Some(msg)], ErrorResult(msg))

\* lines 147-155: "order.id" raises UnboundLocalError when no primary was submitted.
ReturnSuccess(f) ==
    IF f.order = None THEN Raised(f, UnboundOrderMessage)
    ELSE Done(f, SuccessResult(f))

\* lines 132-155, up to the next broker call
AfterPrimary(f) ==
    IF WantsStopLoss(f.signal.action) THEN [f EXCEPT !.pc = "get_latest_trade"]
    ELSE ReturnSuccess(f)

SubmitRecord(kind, side, qty, price, ok) ==
    [op |-> "submit_order", type |-> kind, side |-> side, qty |-> qty, price |-> price, ok |-> ok]

LookupRecord(ok) ==
    [op |-> "get_latest_trade", type |-> "-", side |-> "-", qty |-> 0, price |-> None, ok |-> ok]

\* ------------------------------------------------------------ execute_trade
\* Lines 78-111/121: entry of execute_trade up to its first broker call.
EnterExecuteTrade(signal, order_type, limit_price, quantity) ==
    LET f0 == [IdleFrame EXCEPT !.signal = signal, !.order_type = order_type,
                                !.limit_price = limit_price, !.arg_quantity = quantity,
                                !.quantity = quantity]
    IN  IF ~IsTradeAction(signal.action) THEN Done(f0, NoTradeResult)
        ELSE IF broker = "paper"
             THEN Done(f0, PaperResult(signal.ticker, signal.action, quantity))
        ELSE LET f1 == [f0 EXCEPT !.quantity =
                            Some(ResolveQuantity(quantity, signal.ticker, signal.confidence))]
             IN  IF broker = "alpaca" /\ client # None
                 THEN IF PrimaryKind(order_type, limit_price) # "none"
                      THEN [f1 EXCEPT !.pc = "submit_primary"]
                      ELSE AfterPrimary(f1)
                 ELSE Done(f1, NotConnectedResult)

execute_trade_Reconnects(t, signal, order_type, limit_price, quantity) ==
    /\ frame[t].pc = "idle"
    /\ frame' = [frame EXCEPT ![t] = EnterExecuteTrade(signal, order_type, limit_price, quantity)]
    /\ client' = IF broker = "alpaca" /\ client = None THEN Some("REST") ELSE client
    /\ UNCHANGED <<broker, connect_outcome, max_capital_per_trade, use_stop_loss,
                   stop_loss_pct, now, tracker>>

execute_trade(t, signal, order_type, limit_price, quantity) ==
    /\ frame[t].pc = "idle"
    /\ frame' = [frame EXCEPT ![t] = EnterExecuteTrade(signal, order_type, limit_price, quantity)]
    /\ UNCHANGED <<config, now, tracker>>

SubmitPrimary_RetryOnFailure(t) ==
    LET f == frame[t]
        kind == PrimaryKind(f.order_type, f.limit_price)
        side == IF f.signal.action = "BUY" THEN "buy" ELSE "sell"
        price == IF kind = "limit" THEN f.limit_price ELSE None
    IN  /\ f.pc = "submit_primary"
        /\ Len(f.calls) < 3
        /\ \/ \E id \in OrderIds :
                frame' = [frame EXCEPT ![t] = AfterPrimary(
                    [f EXCEPT !.order = Some(id),
                              !.calls = Append(f.calls, SubmitRecord(kind, side, f.quantity[1], price, TRUE))])]
           \/ frame' = [frame EXCEPT ![t] =
                    [f EXCEPT !.calls = Append(f.calls, SubmitRecord(kind, side, f.quantity[1], price, FALSE))]]
        /\ UNCHANGED <<config, now, tracker>>

\* Lines 113-130: client.submit_order for the primary order returns or raises.
SubmitPrimary(t) ==
    LET f == frame[t]
        kind == PrimaryKind(f.order_type, f.limit_price)
        side == IF f.signal.action = "BUY" THEN "buy" ELSE "sell"
        price == IF kind = "limit" THEN f.limit_price ELSE None
    IN  /\ f.pc = "submit_primary"
        /\ \/ \E id \in OrderIds :
                frame' = [frame EXCEPT ![t] = AfterPrimary(
                    [f EXCEPT !.order = Some(id),
                              !.calls = Append(f.calls, SubmitRecord(kind, side, f.quantity[1], price, TRUE))])]
           \/ \E msg \in ExceptionMessages :
                frame' = [frame EXCEPT ![t] = Raised(
                    [f EXCEPT !.calls = Append(f.calls, SubmitRecord(kind, side, f.quantity[1], price, FALSE))],
                    msg)]
        /\ UNCHANGED <<config, now, tracker>>

\* Line 134: client.get_latest_trade returns a price or raises.
GetLatestTrade(t) ==
    LET f == frame[t]
    IN  /\ f.pc = "get_latest_trade"
        /\ \/ \E p \in LatestPrices :
                frame' = [frame EXCEPT ![t] =
                    [f EXCEPT !.pc = "submit_stop", !.current_price = Some(p),
                              !.calls = Append(f.calls, LookupRecord(TRUE))]]
           \/ \E msg \in ExceptionMessages :
                frame' = [frame EXCEPT ![t] = Raised(
                    [f EXCEPT !.calls = Append(f.calls, LookupRecord(FALSE))],
                    msg)]
        /\ UNCHANGED <<config, now, tracker>>

\* Lines 135-155: client.submit_order for the stop order returns or raises,
\* then the call returns.
SubmitStop(t) ==
    LET f == frame[t]
        stop == Some(StopPrice(f.current_price[1]))
    IN  /\ f.pc = "submit_stop"
        /\ \/ frame' = [frame EXCEPT ![t] = ReturnSuccess(
                    [f EXCEPT !.calls = Append(f.calls, SubmitRecord("stop", "sell", f.quantity[1], stop, TRUE))])]
           \/ \E msg \in ExceptionMessages :
                frame' = [frame EXCEPT ![t] = Raised(
                    [f EXCEPT !.calls = Append(f.calls, SubmitRecord("stop", "sell", f.quantity[1], stop, FALSE))],
                    msg)]
        /\ UNCHANGED <<config, now, tracker>>

\* The caller takes the returned dict; the call's locals are gone.
Return(t) ==
    /\ frame[t].pc = "done"
    /\ frame' = [frame EXCEPT ![t] = IdleFrame]
    /\ UNCHANGED <<config, now, tracker>>

\* datetime.now() advances.
Tick ==
    /\ now < MaxClock
    /\ now' = now + 1
    /\ UNCHANGED <<config, frame, tracker>>

Signals == [ticker : Tickers, action : Actions, confidence : Confidences]

Call(t) ==
    \E signal \in Signals, ot \in OrderTypes, lp \in LimitPrices, q \in Quantities :
        execute_trade(t, signal, ot, lp, q)

\* One caller at a time, as in AimBot.process_news_item's loop.
Next ==
    \/ Call("t1")
    \/ SubmitPrimary("t1")
    \/ GetLatestTrade("t1")
    \/ SubmitStop("t1")
    \/ Return("t1")
    \/ Tick

Spec == Init /\ [][Next]_vars

\* ------------------------------------------------------------ check_order_status
\* Order ids a caller may ask about: those the venue holds and one it does not.
StatusIds == OrderIds \cup {"zz99"}

\* No client.get_order call was made (paper, or no usable client).
NoQuery == [raised |-> None, order |-> None]

\* Line 187: client.get_order(order_id) returns the venue's record of the
\* order or raises (unknown id, transient failure).
GetOrderOutcomes(order_id) ==
    (IF order_id \in DOMAIN venue THEN {[raised |-> None, order |-> Some(venue[order_id])]} ELSE {})
        \cup {[raised |-> Some(msg), order |-> None] : msg \in ExceptionMessages}

StatusResult_ErrorAsUnknown(order_id, got) ==
    IF broker = "paper"
    THEN [status |-> "filled", filled_qty |-> 10, filled_price |-> Some(100)]
    ELSE IF broker = "alpaca" /\ client # None /\ got.raised = None
         THEN [status |-> got.order[1].status, filled_qty |-> got.order[1].filled_qty,
               filled_price |-> got.order[1].filled_avg_price, symbol |-> got.order[1].symbol]
         ELSE [status |-> "unknown"]

\* Lines 181-198: the dict check_order_status returns, given what get_order did.
StatusResult(order_id, got) ==
    IF broker = "paper"
    THEN [status |-> "filled", filled_qty |-> 10, filled_price |-> Some(100)]
    ELSE IF broker = "alpaca" /\ client # None
         THEN IF got.raised = None
              THEN [status |-> got.order[1].status, filled_qty |-> got.order[1].filled_qty,
                    filled_price |-> got.order[1].filled_avg_price, symbol |-> got.order[1].symbol]
              ELSE [status |-> "error", message |-> got.raised[1]]
         ELSE [status |-> "unknown"]

\* The caller of thread t, between two execute_trade calls, asks for the status
\* of order_id.  seq is 2 when the previous recorded call asked about the same
\* order, 1 otherwise.
check_order_status(t, order_id) ==
    /\ frame[t].pc = "idle"
    /\ \E got \in (IF broker = "alpaca" /\ client # None
                    THEN GetOrderOutcomes(order_id) ELSE {NoQuery}) :
           last_status' = Some([order_id |-> order_id, raised |-> got.raised,
                                result |-> StatusResult(order_id, got),
                                seq |-> IF last_status # None /\ last_status[1].order_id = order_id
                                        THEN 2 ELSE 1])
    /\ UNCHANGED <<config, now, frame, venue>>

CheckStatus(t) ==
    \E order_id \in StatusIds : check_order_status(t, order_id)

\* The venue fills an order it holds; a recorded status of that order is stale.
VenueFill ==
    \E id \in DOMAIN venue :
        /\ venue[id].status = "new"
        /\ venue' = [venue EXCEPT ![id] = FilledOrder]
        /\ last_status' = IF last_status # None /\ last_status[1].order_id = id
                          THEN None ELSE last_status
        /\ UNCHANGED <<config, now, frame>>

TrackerSignals == [ticker : {"TSLA"}, action : Actions, confidence : {ConfScale - 2}]

TrackerCall(t) ==
    \E signal \in TrackerSignals, ot \in OrderTypes, lp \in LimitPrices, q \in {None, Some(1)} :
        execute_trade(t, signal, ot, lp, q)

\* One caller alternating execute_trade and check_order_status while the venue
\* fills orders.
NextTracker ==
    \/ TrackerCall("t1")
    \/ SubmitPrimary("t1")
    \/ GetLatestTrade("t1")
    \/ SubmitStop("t1")
    \/ Return("t1")
    \/ CheckStatus("t1")
    \/ VenueFill
    \/ Tick

SpecTracker == Init /\ [][NextTracker]_vars

\* ------------------------------------------------------------ concurrent callers
\* Several callers share one executor, each calling as AimBot.process_news_item
\* does: only BUY and SELL signals, default order_type, limit_price, quantity.
\* The executor takes no lock, so the calls interleave at their broker calls.
ConcurrentSignals == [ticker : Tickers, action : {"BUY", "SELL"}, confidence : {ConfScale - 2}]

ConcurrentCall(t) ==
    \E signal \in ConcurrentSignals : execute_trade(t, signal, "market", None, None)

NextConcurrent ==
    \/ \E t \in Threads :
           \/ ConcurrentCall(t)
           \/ SubmitPrimary(t)
           \/ GetLatestTrade(t)
           \/ SubmitStop(t)
           \/ Return(t)
    \/ Tick

SpecConcurrent == Init /\ [][NextConcurrent]_vars

\* ------------------------------------------------------------ properties
Active(t) == frame[t].pc # "idle"

Returned(t) == frame[t].pc = "done"

Result(t) == frame[t].result[1]

ConnectedVenue == broker = "alpaca" /\ client # None /\ connect_outcome = "ok"

CallIndexes(t) == 1..Len(frame[t].calls)

SubmitIndexes(t) == {i \in CallIndexes(t) : frame[t].calls[i].op = "submit_order"}

PrimaryAccepted(t) ==
    \E i \in SubmitIndexes(t) : frame[t].calls[i].type # "stop" /\ frame[t].calls[i].ok

StopStepFailed(t) ==
    \E i \in CallIndexes(t) :
        /\ ~frame[t].calls[i].ok
        /\ \/ frame[t].calls[i].op = "get_latest_trade"
           \/ frame[t].calls[i].op = "submit_order" /\ frame[t].calls[i].type = "stop"

ExplicitQuantity(t) == frame[t].arg_quantity # None

\* The call reached line 105 and sized the position itself.
Sized(t) ==
    /\ Active(t)
    /\ IsTradeAction(frame[t].signal.action)
    /\ broker # "paper"
    /\ ~ExplicitQuantity(t)

\* C1: a call on a HOLD signal has returned no_trade with order_id None and has
\* made no broker-client call, whatever the broker and the configuration.
C1_HoldMakesNoBrokerCall ==
    \A t \in Threads :
        (Active(t) /\ frame[t].signal.action = "HOLD") =>
            /\ Returned(t)
            /\ frame[t].calls = <<>>
            /\ Result(t).status = "no_trade"
            /\ Result(t).order_id = None

C1_Witness ==
    \E t \in Threads :
        /\ Returned(t)
        /\ frame[t].signal.action = "HOLD"
        /\ ConnectedVenue
        /\ use_stop_loss

\* C2: on a connected venue with use_stop_loss, a BUY whose primary order was
\* accepted and whose stop-loss step failed still returns success with the
\* primary order's id.
C2_StopLossFailureKeepsSuccess ==
    \A t \in Threads :
        (/\ Returned(t)
         /\ ConnectedVenue
         /\ use_stop_loss
         /\ frame[t].signal.action = "BUY"
         /\ PrimaryAccepted(t)
         /\ StopStepFailed(t)) =>
            /\ Result(t).status = "success"
            /\ Result(t).order_id = frame[t].order

\* C3: a call that returned status error had no order of any kind accepted by
\* the venue.
C3_ErrorMeansNothingPlaced ==
    \A t \in Threads :
        (Returned(t) /\ Result(t).status = "error") =>
            \A i \in SubmitIndexes(t) : ~frame[t].calls[i].ok

\* C4: every returned result is well-formed for its status: success carries an
\* order id, error carries a non-empty message.
C4_ResultWellFormed ==
    \A t \in Threads :
        Returned(t) =>
            /\ Result(t).status = "success" => Result(t).order_id # None
            /\ Result(t).status = "error" =>
                   Result(t).message # None /\ Result(t).message # Some("")

\* C5: every order passed to submit_order, primary or stop, has qty >= 1.
C5_SubmittedQtyPositive ==
    \A t \in Threads :
        \A i \in SubmitIndexes(t) : frame[t].calls[i].qty >= 1

\* C6: a BUY or SELL call with an explicit quantity <= 0 returns an error
\* before any broker call, on every broker variant.
C6_NonPositiveQuantityRejected ==
    \A t \in Threads :
        (/\ Active(t)
         /\ IsTradeAction(frame[t].signal.action)
         /\ ExplicitQuantity(t)
         /\ frame[t].arg_quantity[1] <= 0) =>
            /\ Returned(t)
            /\ Result(t).status = "error"
            /\ frame[t].calls = <<>>

\* C7: for confidence in [0,1] and max_capital_per_trade > 0 the position size
\* is at least 1, and is floor(m*c/100) whenever that floor is at least 1.
C7_PositionSizeFloor ==
    \A t \in Threads :
        (/\ Sized(t)
         /\ frame[t].signal.confidence \in 0..ConfScale
         /\ max_capital_per_trade > 0) =>
            LET floor == FloorShares(max_capital_per_trade, frame[t].signal.confidence)
            IN  /\ frame[t].quantity # None
                /\ frame[t].quantity[1] >= 1
                /\ floor >= 1 => frame[t].quantity[1] = floor

C7_Witness ==
    \E t \in Threads :
        /\ Sized(t)
        /\ frame[t].signal.confidence \in 1..(ConfScale - 1)
        /\ FloorShares(max_capital_per_trade, frame[t].signal.confidence) >= 2
        /\ frame[t].quantity = Some(FloorShares(max_capital_per_trade, frame[t].signal.confidence))

\* C8: confidence outside [0,1] is clamped by position sizing: above 1 the size
\* is the size for confidence 1, below 0 it is the size for confidence 0.
C8_ConfidenceClamped ==
    \A t \in Threads :
        Sized(t) =>
            /\ frame[t].signal.confidence > ConfScale =>
                   frame[t].quantity = Some(Max(1, FloorShares(max_capital_per_trade, ConfScale)))
            /\ frame[t].signal.confidence < 0 =>
                   frame[t].quantity = Some(Max(1, FloorShares(max_capital_per_trade, 0)))

DisconnectedAtConstruction ==
    \/ broker = "alpaca" /\ connect_outcome # "ok"
    \/ broker \notin {"paper", "alpaca"}

PrimaryIndexes(t) == {i \in SubmitIndexes(t) : frame[t].calls[i].type # "stop"}

StopIndexes(t) == {i \in SubmitIndexes(t) : frame[t].calls[i].type = "stop"}

PrimaryRaised(t) == \E i \in PrimaryIndexes(t) : ~frame[t].calls[i].ok

\* C11: when connecting failed at construction (import failure, client
\* construction or account check raising) or the broker is unsupported, every
\* execute_trade on a BUY or SELL signal returns the error "Broker not
\* connected" and calls submit_order on no client.
C11_FailedConnectionNeverSubmits ==
    \A t \in Threads :
        (/\ DisconnectedAtConstruction
         /\ Active(t)
         /\ IsTradeAction(frame[t].signal.action)) =>
            /\ Returned(t)
            /\ Result(t).status = "error"
            /\ Result(t).message = Some(NotConnectedMessage)
            /\ SubmitIndexes(t) = {}

\* C12: within one execute_trade call the primary order is submitted at most
\* once and the stop order at most once; a broker call that failed is the last
\* call of its execute_trade, which returned an error result.
C12_NoInternalRetry ==
    \A t \in Threads :
        /\ Cardinality(PrimaryIndexes(t)) <= 1
        /\ Cardinality(StopIndexes(t)) <= 1
        /\ \A i \in CallIndexes(t) :
               ~frame[t].calls[i].ok =>
                   /\ i = Len(frame[t].calls)
                   /\ Returned(t)
                   /\ Result(t).status = "error"

C12_Witness ==
    \E t \in Threads :
        /\ Returned(t)
        /\ PrimaryRaised(t)
        /\ Len(frame[t].calls) = 1
        /\ Result(t).status = "error"

\* C13: on a connected venue, when the primary submit_order raises, the call
\* returns status error with order_id None and the exception's message, and
\* makes no further broker call (no price lookup, no stop order).
C13_PrimaryFailureIsError ==
    \A t \in Threads :
        (ConnectedVenue /\ PrimaryRaised(t)) =>
            /\ Returned(t)
            /\ Result(t).status = "error"
            /\ Result(t).order_id = None
            /\ frame[t].exception # None
            /\ Result(t).message = frame[t].exception
            /\ Len(frame[t].calls) = 1

C13_Witness ==
    \E t \in Threads :
        /\ ConnectedVenue
        /\ PrimaryRaised(t)
        /\ use_stop_loss
        /\ frame[t].signal.action = "BUY"
        /\ Result(t).message = Some("venue rejected the order")

\* C17: a stop order is submitted only after a primary order of the same call
\* was submitted and accepted, for every order_type and limit_price.
C17_StopAfterAcceptedPrimary ==
    \A t \in Threads :
        \A i \in StopIndexes(t) :
            \E j \in PrimaryIndexes(t) : j < i /\ frame[t].calls[j].ok

\* C18: a stop order is submitted only for a BUY with use_stop_loss enabled; it
\* is a sell-side stop order for the quantity of the call (that of the primary
\* order) with stop price = looked-up price * (1 - stop_loss_pct).
C18_StopOrderShape ==
    \A t \in Threads :
        \A i \in StopIndexes(t) :
            LET stop == frame[t].calls[i]
            IN  /\ frame[t].signal.action = "BUY"
                /\ use_stop_loss
                /\ stop.side = "sell"
                /\ stop.qty = frame[t].quantity[1]
                /\ \A j \in PrimaryIndexes(t) : frame[t].calls[j].qty = stop.qty
                /\ frame[t].current_price # None
                /\ stop.price # None
                /\ stop.price[1] + frame[t].current_price[1] * stop_loss_pct
                       = frame[t].current_price[1] * 100

C18_Witness ==
    \E t \in Threads :
        /\ Returned(t)
        /\ Result(t).status = "success"
        /\ \E i \in StopIndexes(t) : frame[t].calls[i].ok /\ frame[t].calls[i].qty = MaxQty
        /\ \E j \in PrimaryIndexes(t) : frame[t].calls[j].ok

\* C19: on a connected venue every BUY or SELL call submits exactly one primary
\* order: a limit order with the caller's limit price when a limit price is
\* supplied, a market order otherwise.
C19_OrderTypeByLimitPrice ==
    \A t \in Threads :
        (/\ ConnectedVenue
         /\ Returned(t)
         /\ IsTradeAction(frame[t].signal.action)) =>
            /\ Cardinality(PrimaryIndexes(t)) = 1
            /\ \A i \in PrimaryIndexes(t) :
                   IF frame[t].limit_price # None
                   THEN /\ frame[t].calls[i].type = "limit"
                        /\ frame[t].calls[i].price = frame[t].limit_price
                   ELSE frame[t].calls[i].type = "market"

CheckStep == last_status' # last_status /\ last_status' # None

\* C15 as stated: check_order_status changes no executor state and submits
\* nothing; two consecutive calls with the same order id and no change of the
\* venue's record in between return identical results; a failed venue query
\* gives a result with status error.
C15_StatusIdempotent ==
    [][/\ CheckStep => UNCHANGED <<config, frame, venue>>
       /\ (/\ last_status # None
           /\ last_status' # None
           /\ last_status'[1].order_id = last_status[1].order_id) =>
              last_status'[1].result = last_status[1].result
       /\ (CheckStep /\ last_status'[1].raised # None) =>
              last_status'[1].result.status = "error"]_vars

\* C15 amended: as above, with identical results claimed only when the venue
\* query has the same outcome in both calls (both answered, or both failing
\* with the same error).
C15_StatusIdempotentSameOutcome ==
    [][/\ CheckStep => UNCHANGED <<config, frame, venue>>
       /\ (/\ last_status # None
           /\ last_status' # None
           /\ last_status'[1].order_id = last_status[1].order_id
           /\ last_status'[1].raised = last_status[1].raised) =>
              last_status'[1].result = last_status[1].result
       /\ (CheckStep /\ last_status'[1].raised # None) =>
              last_status'[1].result.status = "error"]_vars

C15_Witness ==
    /\ ConnectedVenue
    /\ last_status # None
    /\ last_status[1].seq = 2
    /\ last_status[1].raised = None
    /\ last_status[1].result.status = "filled"

\* C20: after construction no execute_trade or check_order_status step changes
\* the executor's broker, client or connection outcome: no reconnect, and a
\* connected executor never loses its client.
C20_ConnectionDecidedOnce ==
    [][/\ broker' = broker
       /\ client' = client
       /\ connect_outcome' = connect_outcome]_vars

C20_Witness ==
    /\ broker = "alpaca"
    /\ client = None
    /\ last_status # None
    /\ last_status[1].result.status = "unknown"
    /\ \E t \in Threads :
           /\ Returned(t)
           /\ IsTradeAction(frame[t].signal.action)
           /\ Result(t).message = Some(NotConnectedMessage)

\* The call has resolved its quantity and its broker submission is not complete.
InFlight(t) == frame[t].pc \in {"submit_primary", "get_latest_trade", "submit_stop"}

\* C14: on the paper broker every BUY or SELL call returns success with no fill
\* price, and the order ids of any two calls are distinct, also when both read
\* the same clock value.
C14_PaperIdsDistinct ==
    /\ \A t \in Threads :
           (Returned(t) /\ broker = "paper") =>
               /\ Result(t).status = "success"
               /\ Result(t).price = None
    /\ \A t1, t2 \in Threads :
           (t1 # t2 /\ broker = "paper" /\ Returned(t1) /\ Returned(t2)) =>
               Result(t1).order_id # Result(t2).order_id

\* C16: two execute_trade calls for the same ticker are never both between
\* quantity resolution and the completion of their broker submission.
C16_SameTickerSerialized ==
    \A t1, t2 \in Threads :
        (t1 # t2 /\ InFlight(t1) /\ InFlight(t2)) =>
            frame[t1].signal.ticker # frame[t2].signal.ticker

====
